---- MODULE Spec2Model ----
(***************************************************************************)
(* Model of the game server of src/server.py: the Receiver, the Handler    *)
(* and the Sender workers of class Server, the session state they share,   *)
(* and the events of src/lib/events.py.                                    *)
(*                                                                         *)
(* Granularity.  The three workers are Python threads; a thread switch can *)
(* happen between any two reads or writes of shared state.  Every action   *)
(* below makes at most one access to state that another worker writes, or  *)
(* one write another worker reads, together with accesses that commute     *)
(* with every step of the other workers.  A loop over self.players or      *)
(* self.clients is one action per call of the iterator's next().           *)
(*                                                                         *)
(* Bounds.  No action of the server waits for room: the bounds of the      *)
(* model are bounds on what the clients do (when they connect, send and    *)
(* what they send).                                                        *)
(*                                                                         *)
(* A socket and the Player created for it are named by the same number:    *)
(* __wait_for_client creates both together under next_player_id.  The      *)
(* listening socket is ServerSock.                                         *)
(***************************************************************************)
EXTENDS Integers, Sequences, FiniteSets, TLC

\* ------------------------------------------------------------ bounds
\* Clients that ever connect (caps next_player_id).
MaxPlayers == 3
\* The max_client_count the Server is constructed with.
MaxClients == 2
\* Length of the inbound queue at which clients stop sending.
MaxQueue == 2
\* Outbound events, queued or still to be caused by what the clients have
\* sent, at which the clients stop connecting and sending.
MaxOut == 2
\* Sockets one select() call reports readable.
MaxReadable == 1
\* Clients that close their connection.
MaxCloses == 1
\* Unit ids the id generator hands out.
MaxUnitId == 3
\* Largest |units_count| of a planet.
MaxUnits == 4
\* Planets the map generator makes, and the units each starts with.
NumPlanets == 2
InitUnits == 2

\* ------------------------------------------------------------ names
ServerSock == 0
NoOwner == 0
NoEvent == [name |-> "none"]
NoClient == 0
NoIter == [size |-> 0, last |-> 0, left |-> 0]
PlayerIds == 1..MaxPlayers
PlanetIds == 1..NumPlanets
UnitIds == 1..MaxUnitId

VARIABLES
    clients,          \* Server.clients: list of client sockets
    players,          \* Server.players: sockets with a Player, in dict order
    next_player_id,   \* Server.next_player_id
    closed,           \* sockets the server has closed
    ready,            \* Player.ready, by player id
    rendered,         \* Player.rendered, by player id
    object_ids,       \* Player.object_ids, by player id
    readiness,        \* Server.readiness
    game_started,     \* Server.game_started
    cache,            \* Planet.cache: planet id -> [owner, units_count]
    id_generator,     \* ID_GENERATOR: the next id it yields
    handler_queue,    \* Server.__handler_queue
    sender_queue,     \* Server.__sender_queue
    alive,            \* StoppedThread liveness flag, by worker
    r_pc, r_readable, \* Receiver: position, sockets left of select()'s result
    r_list,           \* Receiver: the list select() was called with
    h_pc,             \* Handler: position
    h_it,             \* Handler: the iterator over self.players.values()
    h_acc,            \* Handler: the list its loop builds
    s_pc, s_event, s_idx, s_live, s_snapshot,
                      \* Sender: position, event being sent, list iterator
    s_client          \* Sender: the loop variable client

connVars == <<clients, players, next_player_id, closed>>
playerVars == <<ready, rendered, object_ids>>
gameVars == <<readiness, game_started, cache, id_generator>>
rVars == <<r_pc, r_readable, r_list>>
hVars == <<h_pc, h_it, h_acc>>
sVars == <<s_pc, s_event, s_idx, s_live, s_snapshot, s_client>>
vars == <<connVars, playerVars, gameVars, handler_queue, sender_queue, alive,
          rVars, hVars, sVars>>

\* ------------------------------------------------------------ helpers
Range(s) == {s[i] : i \in 1..Len(s)}

\* RemoveFirst that leaves the list as it is.
RemoveFirst_Keep(s, x) == s

RECURSIVE RemoveFirst(_, _)
\* list.remove(x): the list without the first occurrence of x.
RemoveFirst(s, x) ==
    IF s = <<>> THEN <<>>
    ELSE IF Head(s) = x THEN Tail(s)
    ELSE <<Head(s)>> \o RemoveFirst(Tail(s), x)

RECURSIVE SubSeqs(_)
\* Every subsequence of s, in the order of s.
SubSeqs(s) ==
    IF s = <<>> THEN {<<>>}
    ELSE LET rest == SubSeqs(Tail(s))
         IN rest \cup {<<Head(s)>> \o t : t \in rest}

\* EventPriorityQueue.insert / remove / empty.
QInsert(q, e) == Append(q, e)
QHead(q) == Head(q)
QRemove(q) == Tail(q)
QEmpty(q) == q = <<>>

\* Server.__notify: a ServerEvent appended to the outbound queue.
Notify(q, e) == QInsert(q, e)

\* HasEvent for a consumer that calls remove() without testing empty().
HasEvent_Unchecked(q) == TRUE

\* if not queue.empty(): the consumer's test before its remove().
HasEvent(q) == ~QEmpty(q)

\* Round100 with a tie rounded up.
Round100_HalfUp(num) ==
    IF num % 100 < 50 THEN num \div 100 ELSE num \div 100 + 1

\* Python's round() of num/100.0: to the nearest integer, a tie to the even one.
Round100(num) ==
    LET q == num \div 100
        r == num % 100
    IN IF r < 50 THEN q
       ELSE IF r > 50 THEN q + 1
       ELSE IF q % 2 = 0 THEN q ELSE q + 1

\* abs()
Abs(x) == IF x < 0 THEN -x ELSE x

\* [next(ID_GENERATOR) for _ in range(n)]: n fresh ids from g on (none if n <= 0).
Mint(g, n) == [i \in 1..n |-> g + i - 1]

\* MapGenerator.run(player ids): one planet per player, in the order given, and
\* neutral planets for the rest; Planet.cache holds the planets made.
GenerateMap(ids) ==
    [pl \in PlanetIds |->
        [owner |-> IF pl <= Len(ids) THEN ids[pl] ELSE NoOwner,
         units_count |-> InitUnits]]

\* ------------------------------------------------------------ inputs
\* What a client may send (ClientEvent: the decoded JSON object).
HpCounts == {1, 3}
HpAdds == {-3, 2}
Percentages == {50, 100}
PlanetLists == {<<1>>, <<1, 2>>, <<1, 1>>}

LobbyEvents ==
    {[name |-> "ready", ready |-> b] : b \in BOOLEAN}
    \cup {[name |-> "rendered"]}
MoveEvents == {[name |-> "move", unit_id |-> 1]}
SelectEvents ==
    {[name |-> "select", from |-> f, percentage |-> pc] :
        f \in PlanetLists, pc \in Percentages}
AddHpEvents ==
    {[name |-> "add_hp", planet_id |-> pl, hp_count |-> h] :
        pl \in {1}, h \in HpAdds}
DamageEvents ==
    {[name |-> "damage", planet_id |-> pl, unit_id |-> u, hp_count |-> h] :
        pl \in PlanetIds, u \in {1}, h \in HpCounts}
GameEvents == MoveEvents \cup SelectEvents \cup AddHpEvents \cup DamageEvents

\* The turn actions that play a match to its end.
MatchEvents ==
    {[name |-> "select", from |-> <<pl>>, percentage |-> 50] : pl \in PlanetIds}
    \cup {[name |-> "damage", planet_id |-> pl, unit_id |-> u, hp_count |-> h] :
            pl \in PlanetIds, u \in 1..2, h \in HpCounts}

\* ------------------------------------------------------------ Init
\* Server.__init__, and the three workers of Server.start() at their loops.
Init ==
    /\ clients = <<>>
    /\ players = <<>>
    /\ next_player_id = 0
    /\ closed = {}
    /\ ready = [p \in PlayerIds |-> FALSE]
    /\ rendered = [p \in PlayerIds |-> FALSE]
    /\ object_ids = [p \in PlayerIds |-> <<>>]
    /\ readiness = FALSE
    /\ game_started = FALSE
    /\ cache = <<>>
    /\ id_generator = 1
    /\ handler_queue = <<>>
    /\ sender_queue = <<>>
    /\ alive = [t \in {"receiver", "handler", "sender"} |-> TRUE]
    /\ r_pc = "select"
    /\ r_readable = <<>>
    /\ r_list = <<>>
    /\ h_pc = "idle"
    /\ h_it = NoIter
    /\ h_acc = <<>>
    /\ s_pc = "idle"
    /\ s_event = NoEvent
    /\ s_idx = 0
    /\ s_live = TRUE
    /\ s_snapshot = <<>>
    /\ s_client = NoClient


\* ------------------------------------------------------------ turn results
\* SELECT, the loop over event.payload['from']: planets c, the sender's unit
\* list objs, the id generator g, the ids minted per planet pu.  A planet id
\* that is not in Planet.cache raises KeyError and ends the loop there.
RECURSIVE SelectLoop(_, _, _, _, _, _, _)
SelectLoop(ids, p, pct, c, objs, g, pu) ==
    IF ids = <<>>
    THEN [cache |-> c, objs |-> objs, gen |-> g, punits |-> pu, raised |-> FALSE]
    ELSE LET pl == Head(ids)
         IN IF pl \notin DOMAIN c
            THEN [cache |-> c, objs |-> objs, gen |-> g, punits |-> pu,
                  raised |-> TRUE]
            ELSE IF c[pl].owner = p
            THEN LET n == Round100(c[pl].units_count * pct)
                     new == Mint(g, n)
                 IN SelectLoop(Tail(ids), p, pct,
                        [c EXCEPT ![pl].units_count = @ - n],
                        objs \o new, g + Len(new), (pl :> new) @@ pu)
            ELSE SelectLoop(Tail(ids), p, pct, c, objs, g, pu)

\* DamagePlanet with the planet changing hands already at 0 units.
DamagePlanet_FlipAtZero(planet, p, hp) ==
    IF planet.owner = p
    THEN [planet EXCEPT !.units_count = @ + hp]
    ELSE IF planet.units_count - hp <= 0
         THEN [owner |-> p, units_count |-> Abs(planet.units_count - hp)]
         ELSE [planet EXCEPT !.units_count = @ - hp]

\* DAMAGE, lines 191-197: the planet after a unit of player p hits it with hp.
DamagePlanet(planet, p, hp) ==
    IF planet.owner = p
    THEN [planet EXCEPT !.units_count = @ + hp]
    ELSE IF planet.units_count - hp < 0
         THEN [owner |-> p, units_count |-> Abs(planet.units_count - hp)]
         ELSE [planet EXCEPT !.units_count = @ - hp]

\* ------------------------------------------------------------ the clients
\* Every planet's units_count is within the model's bound.
UnitsInBound(c) == \A pl \in DOMAIN c : Abs(c[pl].units_count) <= MaxUnits

\* The clients send a turn action only when its result stays within the
\* bounds of the model: unit ids up to MaxUnitId, planets up to MaxUnits units.
InBounds(e) ==
    CASE e.name = "select" ->
            LET r == SelectLoop(e.from, e.player, e.percentage, cache,
                                object_ids[e.player], id_generator, <<>>)
            IN r.gen <= MaxUnitId + 1 /\ UnitsInBound(r.cache)
      [] e.name = "add_hp" ->
            e.planet_id \in DOMAIN cache =>
                Abs(cache[e.planet_id].units_count + e.hp_count) <= MaxUnits
      [] e.name = "damage" ->
            e.planet_id \in DOMAIN cache =>
                Abs(DamagePlanet(cache[e.planet_id], e.player,
                                 e.hp_count).units_count) <= MaxUnits
      [] OTHER -> TRUE

\* The outbound events the Handler may enqueue for one inbound event: READY
\* notifies ready and mapinit, DAMAGE notifies damage and gameover, every
\* other branch notifies once at most.
Need(e) == IF e.name \in {"ready", "damage"} THEN 2 ELSE 1

RECURSIVE NeedAll(_)
\* Need, summed over the inbound queue q.
NeedAll(q) == IF q = <<>> THEN 0 ELSE Need(Head(q)) + NeedAll(Tail(q))

\* The outbound events queued, and those still to come from what the clients
\* have done so far: from the inbound events queued, from the event the
\* Handler is in the middle of, from the connection the Receiver is handling.
Pending ==
    Len(sender_queue) + NeedAll(handler_queue)
    + (IF h_pc \in {"ready_iter", "all_ready", "len_test", "map_new",
                    "map_iter", "set_readiness", "notify_map",
                    "rendered_iter", "all_rendered", "notify_started",
                    "game_over_iter", "game_over_check", "game_over_else"}
       THEN 1 ELSE 0)
    + (IF ServerSock \in Range(r_readable) THEN 1 ELSE 0)

\* The clients connect and send only while the outbound events their action
\* can cause, n of them, keep the outbound queue within MaxOut.
Room(n) == Pending + n <= MaxOut

\* ------------------------------------------------------------ dict iterator
\* iter(self.players.values()): the iterator remembers the size of the dict.
\* Players enter the dict with increasing ids, so its order is that of the ids
\* and the position of the iterator is the last id it yielded.
ItNew == [size |-> Len(players), last |-> 0, left |-> Len(players)]

\* The entries of the dict after the position of the iterator it.
ItRest(it) == {p \in Range(players) : p > it.last}

\* The entry next() yields.
ItYield(it) == CHOOSE p \in ItRest(it) : \A q \in ItRest(it) : p <= q

\* next() raises RuntimeError: the dict changed size during the iteration, or
\* it holds an entry more than the iterator had left to yield (keys changed).
ItRaises(it) ==
    \/ Len(players) # it.size
    \/ ItRest(it) # {} /\ it.left = 0

\* next() raises StopIteration: the loop ends.
ItStops(it) == ~ItRaises(it) /\ ItRest(it) = {}

\* The iterator after next() has yielded ItYield(it).
ItAfter(it) == [it EXCEPT !.last = ItYield(it), !.left = @ - 1]

\* ------------------------------------------------------------ Receiver
\* The for loop of __receiver moves on to the next readable socket, or back to
\* the top of the while loop when none is left.
R_NextSock ==
    /\ r_readable' = Tail(r_readable)
    /\ r_pc' = IF Tail(r_readable) = <<>> THEN "select" ELSE "dispatch"

\* MayAccept without its capacity test.
MayAccept_NoCapacity == ~game_started /\ ~readiness

\* __wait_for_client, its condition.
MayAccept == ~game_started /\ ~readiness /\ Len(clients) < MaxClients

\* while is_alive(): select.select([self.server, *self.clients], ...) is
\* called: the list is built from self.clients as it is now, and the call
\* waits.
R_Select ==
    /\ r_pc = "select"
    /\ alive["receiver"]
    /\ r_list' = <<ServerSock>> \o clients
    /\ r_pc' = "waiting"
    /\ UNCHANGED <<connVars, playerVars, gameVars, handler_queue, sender_queue,
                   alive, r_readable, hVars, sVars>>

\* select() returns: some sockets of the list it was called with are
\* readable, or none is (RECEIVER_TIMEOUT has passed) and the for loop has
\* nothing to do.  The listening socket is readable when a client is
\* connecting, and MaxPlayers bounds the clients that ever connect.
R_SelectReturn ==
    /\ r_pc = "waiting"
    /\ \E rd \in SubSeqs(r_list) :
        /\ Len(rd) <= MaxReadable
        /\ ServerSock \in Range(rd) => (Room(1) /\ next_player_id < MaxPlayers)
        /\ r_readable' = rd
        /\ r_pc' = IF rd = <<>> THEN "select" ELSE "dispatch"
    /\ r_list' = <<>>
    /\ UNCHANGED <<connVars, playerVars, gameVars, handler_queue, sender_queue,
                   alive, hVars, sVars>>

R_WaitForClient ==
    /\ r_pc = "dispatch"
    /\ Head(r_readable) = ServerSock
    /\ IF MayAccept
       THEN r_pc' = "accept" /\ UNCHANGED r_readable
       ELSE R_NextSock
    /\ UNCHANGED <<connVars, playerVars, gameVars, handler_queue, sender_queue,
                   alive, r_list, hVars, sVars>>

\* accept(); self.clients.append(client); self.next_player_id += 1; Player(...).
R_Accept ==
    /\ r_pc = "accept"
    /\ clients' = Append(clients, next_player_id + 1)
    /\ next_player_id' = next_player_id + 1
    /\ r_pc' = "register"
    /\ UNCHANGED <<players, closed, playerVars, gameVars, handler_queue,
                   sender_queue, alive, r_readable, r_list, hVars, sVars>>

\* self.players[client] = player
R_Register ==
    /\ r_pc = "register"
    /\ players' = Append(players, next_player_id)
    /\ r_pc' = "notify"
    /\ UNCHANGED <<clients, next_player_id, closed, playerVars, gameVars,
                   handler_queue, sender_queue, alive, r_readable, r_list,
                   hVars, sVars>>

\* self.__notify(ServerEventName.CONNECT, {'player': player.info()})
R_NotifyConnect ==
    /\ r_pc = "notify"
    /\ sender_queue' = Notify(sender_queue,
                              [name |-> "connect", player |-> next_player_id])
    /\ R_NextSock
    /\ UNCHANGED <<connVars, playerVars, gameVars, handler_queue, alive,
                   r_list, hVars, sVars>>

\* __wait_for_client_data, both recv() calls returning data: the event is tagged
\* with self.players[client_sock] (a KeyError when the socket has no Player) and
\* inserted into the inbound queue.  The client has sent e.
R_RecvEvent(e) ==
    /\ r_pc = "dispatch"
    /\ Head(r_readable) # ServerSock
    /\ LET sock == Head(r_readable)
       IN IF sock \in Range(players)
          THEN /\ Len(handler_queue) < MaxQueue
               /\ Room(Need(e))
               /\ InBounds([player |-> sock] @@ e)
               /\ handler_queue' = QInsert(handler_queue, [player |-> sock] @@ e)
               /\ R_NextSock
          ELSE /\ r_pc' = "raised"
               /\ UNCHANGED <<handler_queue, r_readable>>
    /\ UNCHANGED <<connVars, playerVars, gameVars, sender_queue, alive, r_list,
                   hVars, sVars>>

\* __wait_for_client_data, a recv() returning nothing: __remove_client begins
\* with self.clients.remove(client_sock) (a ValueError when it is not there).
\* The client has closed its connection.
R_RecvEof ==
    /\ r_pc = "dispatch"
    /\ Head(r_readable) # ServerSock
    /\ LET sock == Head(r_readable)
       IN IF sock \in Range(clients)
          THEN clients' = RemoveFirst(clients, sock) /\ r_pc' = "del_player"
          ELSE r_pc' = "raised" /\ UNCHANGED clients
    /\ UNCHANGED <<players, next_player_id, closed, playerVars, gameVars,
                   handler_queue, sender_queue, alive, r_readable, r_list,
                   hVars, sVars>>

\* The clients close at most n connections that the server has then closed.
R_Closes(n) == R_RecvEof /\ Cardinality(closed) < n

\* __wait_for_client_data, a recv() that raises (the peer has reset the
\* connection, or the rest of the message has not arrived on the non-blocking
\* socket) or a message that ClientEvent cannot decode: nothing in __receiver
\* catches it.
R_RecvRaises ==
    /\ r_pc = "dispatch"
    /\ Head(r_readable) # ServerSock
    /\ r_pc' = "raised"
    /\ UNCHANGED <<connVars, playerVars, gameVars, handler_queue, sender_queue,
                   alive, r_readable, r_list, hVars, sVars>>

\* R_DelPlayer with the Receiver also clearing the ready flag of the player.
R_DelPlayer_ClearsReady ==
    /\ r_pc = "del_player"
    /\ LET sock == Head(r_readable)
       IN IF sock \in Range(players)
          THEN /\ players' = RemoveFirst(players, sock)
               /\ ready' = [ready EXCEPT ![sock] = FALSE]
               /\ r_pc' = "close"
          ELSE /\ r_pc' = "raised_del"
               /\ UNCHANGED <<players, ready>>
    /\ UNCHANGED <<clients, next_player_id, closed, rendered, object_ids,
                   gameVars, handler_queue, sender_queue, alive, r_readable,
                   r_list, hVars, sVars>>

\* del self.players[client_sock]. When the socket has no Player the del
\* raises KeyError: the Receiver ends at "raised_del", the socket removed
\* from clients and not closed.
R_DelPlayer ==
    /\ r_pc = "del_player"
    /\ LET sock == Head(r_readable)
       IN IF sock \in Range(players)
          THEN players' = RemoveFirst(players, sock) /\ r_pc' = "close"
          ELSE r_pc' = "raised_del" /\ UNCHANGED players
    /\ UNCHANGED <<clients, next_player_id, closed, playerVars, gameVars,
                   handler_queue, sender_queue, alive, r_readable, r_list,
                   hVars, sVars>>

\* client_sock.close()
R_Close ==
    /\ r_pc = "close"
    /\ closed' = closed \cup {Head(r_readable)}
    /\ R_NextSock
    /\ UNCHANGED <<clients, players, next_player_id, playerVars, gameVars,
                   handler_queue, sender_queue, alive, r_list, hVars, sVars>>

\* ------------------------------------------------------------ Handler
\* while is_alive(): if not self.__handler_queue.empty(): the Handler goes
\* on to its remove().
H_Check ==
    /\ h_pc = "idle"
    /\ alive["handler"]
    /\ HasEvent(handler_queue)
    /\ h_pc' = "remove"
    /\ UNCHANGED <<connVars, playerVars, gameVars, handler_queue, sender_queue,
                   alive, rVars, h_it, h_acc, sVars>>

\* event = self.__handler_queue.remove() returns the first event of the
\* queue; on an empty queue the call does not return.
H_Idle == h_pc = "remove" /\ ~QEmpty(handler_queue)

\* The Handler leaves its iteration at position pc.
H_Leave(pc) == h_pc' = pc /\ h_it' = NoIter /\ h_acc' = <<>>

\* READY: player.ready = event.payload['ready']; notify (lines 121-126).
H_Ready ==
    /\ H_Idle
    /\ LET e == QHead(handler_queue)
       IN /\ e.name = "ready"
          /\ ready' = [ready EXCEPT ![e.player] = e.ready]
          /\ sender_queue' = Notify(sender_queue,
                [name |-> "ready", player |-> e.player, ready |-> e.ready])
    /\ handler_queue' = QRemove(handler_queue)
    /\ h_pc' = "ready_iter"
    /\ UNCHANGED <<connVars, rendered, object_ids, gameVars, alive, rVars,
                   h_it, h_acc, sVars>>

\* The generator of line 128 is created over self.players.values().
H_ReadyIter ==
    /\ h_pc = "ready_iter"
    /\ h_pc' = "all_ready"
    /\ h_it' = ItNew
    /\ h_acc' = <<>>
    /\ UNCHANGED <<connVars, playerVars, gameVars, handler_queue, sender_queue,
                   alive, rVars, sVars>>

\* all(player.ready for player in self.players.values()), over the dict as it
\* is in one state.
AllReady == \A i \in 1..Len(players) : ready[players[i]]

\* all_ready = all(player.ready for ...), one next() of its iterator: it
\* raises, or all() returns True at its end, or it yields a player, and all()
\* returns False when that player is not ready.
H_AllReady ==
    /\ h_pc = "all_ready"
    /\ IF ItRaises(h_it) THEN H_Leave("raised")
       ELSE IF ItStops(h_it) THEN H_Leave("len_test")
       ELSE IF ready[ItYield(h_it)]
       THEN h_it' = ItAfter(h_it) /\ UNCHANGED <<h_pc, h_acc>>
       ELSE H_Leave("idle")
    /\ UNCHANGED <<connVars, playerVars, gameVars, handler_queue, sender_queue,
                   alive, rVars, sVars>>

\* if all_ready and len(self.players) > 1, with all_ready true.
H_LenTest ==
    /\ h_pc = "len_test"
    /\ h_pc' = IF Len(players) > 1 THEN "map_new" ELSE "idle"
    /\ UNCHANGED <<connVars, playerVars, gameVars, handler_queue, sender_queue,
                   alive, rVars, h_it, h_acc, sVars>>

\* [player.id for player in self.players.values()]: the iterator is created.
H_MapIter ==
    /\ h_pc = "map_new"
    /\ h_pc' = "map_iter"
    /\ h_it' = ItNew
    /\ h_acc' = <<>>
    /\ UNCHANGED <<connVars, playerVars, gameVars, handler_queue, sender_queue,
                   alive, rVars, sVars>>

\* One next() of the list comprehension of line 132: it raises, or it yields
\* a player id, or the list is complete: MapGenerator().run(list) makes the
\* planets (lines 132-134).
H_MapInit ==
    /\ h_pc = "map_iter"
    /\ IF ItRaises(h_it)
       THEN H_Leave("raised") /\ UNCHANGED cache
       ELSE IF ItStops(h_it)
       THEN cache' = GenerateMap(h_acc) /\ H_Leave("set_readiness")
       ELSE /\ h_acc' = Append(h_acc, ItYield(h_it))
            /\ h_it' = ItAfter(h_it)
            /\ UNCHANGED <<h_pc, cache>>
    /\ UNCHANGED <<connVars, playerVars, readiness, game_started, id_generator,
                   handler_queue, sender_queue, alive, rVars, sVars>>

\* self.readiness = True
H_SetReadiness ==
    /\ h_pc = "set_readiness"
    /\ readiness' = TRUE
    /\ h_pc' = "notify_map"
    /\ UNCHANGED <<connVars, playerVars, game_started, cache, id_generator,
                   handler_queue, sender_queue, alive, rVars, h_it, h_acc, sVars>>

\* self.__notify(ServerEventName.MAP_INIT, {'map': game_map})
H_NotifyMap ==
    /\ h_pc = "notify_map"
    /\ sender_queue' = Notify(sender_queue, [name |-> "mapinit", map |-> cache])
    /\ h_pc' = "idle"
    /\ UNCHANGED <<connVars, playerVars, gameVars, handler_queue, alive, rVars,
                   h_it, h_acc, sVars>>

\* all(player.rendered for player in self.players.values()), with the rendered
\* flags r, over the dict as it is in one state.
AllRendered(r) == \A i \in 1..Len(players) : r[players[i]]

\* RENDERED: player.rendered = True (line 143).
H_Rendered ==
    /\ H_Idle
    /\ LET e == QHead(handler_queue)
       IN /\ e.name = "rendered"
          /\ rendered' = [rendered EXCEPT ![e.player] = TRUE]
    /\ handler_queue' = QRemove(handler_queue)
    /\ h_pc' = "rendered_iter"
    /\ UNCHANGED <<connVars, ready, object_ids, gameVars, sender_queue, alive,
                   rVars, h_it, h_acc, sVars>>

\* The generator of line 145 is created over self.players.values().
H_RenderedIter ==
    /\ h_pc = "rendered_iter"
    /\ h_pc' = "all_rendered"
    /\ h_it' = ItNew
    /\ h_acc' = <<>>
    /\ UNCHANGED <<connVars, playerVars, gameVars, handler_queue, sender_queue,
                   alive, rVars, sVars>>

\* One next() of all(player.rendered for ...): it raises, or all() returns
\* True at its end, or it yields a player, and all() returns False when that
\* player has not rendered.
H_RenderedNext ==
    /\ h_pc = "all_rendered"
    /\ IF ItRaises(h_it) THEN H_Leave("raised")
       ELSE IF ItStops(h_it) THEN H_Leave("notify_started")
       ELSE IF rendered[ItYield(h_it)]
       THEN h_it' = ItAfter(h_it) /\ UNCHANGED <<h_pc, h_acc>>
       ELSE H_Leave("idle")
    /\ UNCHANGED <<connVars, playerVars, gameVars, handler_queue, sender_queue,
                   alive, rVars, sVars>>

\* self.__notify(ServerEventName.GAME_STARTED, {})
H_NotifyStarted ==
    /\ h_pc = "notify_started"
    /\ sender_queue' = Notify(sender_queue, [name |-> "game_started"])
    /\ h_pc' = "set_started"
    /\ UNCHANGED <<connVars, playerVars, gameVars, handler_queue, alive, rVars,
                   h_it, h_acc, sVars>>

\* self.game_started = True
H_SetStarted ==
    /\ h_pc = "set_started"
    /\ game_started' = TRUE
    /\ h_pc' = "idle"
    /\ UNCHANGED <<connVars, playerVars, readiness, cache, id_generator,
                   handler_queue, sender_queue, alive, rVars, h_it, h_acc, sVars>>

\* TurnsAccepted with the turn actions accepted at any time.
TurnsAccepted_Always == TRUE

\* if self.game_started: the guard of the turn actions.
TurnsAccepted == game_started

\* MOVE: rebroadcast when the unit is the sender's.
H_Move ==
    /\ H_Idle
    /\ LET e == QHead(handler_queue)
       IN /\ e.name = "move"
          /\ IF TurnsAccepted /\ e.unit_id \in Range(object_ids[e.player])
             THEN sender_queue' = Notify(sender_queue, e)
             ELSE UNCHANGED sender_queue
    /\ handler_queue' = QRemove(handler_queue)
    /\ h_pc' = "idle"
    /\ UNCHANGED <<connVars, playerVars, gameVars, alive, rVars, h_it, h_acc,
                   sVars>>

\* SELECT: the units selected are minted and the selection is broadcast,
\* whatever it holds.
H_Select ==
    /\ H_Idle
    /\ LET e == QHead(handler_queue)
           r == SelectLoop(e.from, e.player, e.percentage, cache,
                           object_ids[e.player], id_generator, <<>>)
       IN /\ e.name = "select"
          /\ IF ~TurnsAccepted
             THEN /\ h_pc' = "idle"
                  /\ UNCHANGED <<object_ids, cache, id_generator, sender_queue>>
             ELSE /\ cache' = r.cache
                  /\ object_ids' = [object_ids EXCEPT ![e.player] = r.objs]
                  /\ id_generator' = r.gen
                  /\ IF r.raised
                     THEN h_pc' = "raised" /\ UNCHANGED sender_queue
                     ELSE /\ sender_queue' = Notify(sender_queue,
                                [name |-> "select", selected |-> r.punits])
                          /\ h_pc' = "idle"
    /\ handler_queue' = QRemove(handler_queue)
    /\ UNCHANGED <<connVars, ready, rendered, readiness, game_started, alive,
                   rVars, h_it, h_acc, sVars>>

\* ADD_HP: Planet.cache[planet_id] (KeyError when absent); the owner adds
\* hp_count units and the request is rebroadcast.
H_AddHp ==
    /\ H_Idle
    /\ LET e == QHead(handler_queue)
       IN /\ e.name = "add_hp"
          /\ IF ~TurnsAccepted
             THEN h_pc' = "idle" /\ UNCHANGED <<cache, sender_queue>>
             ELSE IF e.planet_id \notin DOMAIN cache
             THEN h_pc' = "raised" /\ UNCHANGED <<cache, sender_queue>>
             ELSE IF cache[e.planet_id].owner = e.player
             THEN /\ cache' = [cache EXCEPT ![e.planet_id].units_count =
                                                @ + e.hp_count]
                  /\ sender_queue' = Notify(sender_queue, e)
                  /\ h_pc' = "idle"
             ELSE h_pc' = "idle" /\ UNCHANGED <<cache, sender_queue>>
    /\ handler_queue' = QRemove(handler_queue)
    /\ UNCHANGED <<connVars, playerVars, readiness, game_started, id_generator,
                   alive, rVars, h_it, h_acc, sVars>>

\* DAMAGE: Planet.cache[planet_id] (KeyError when absent); when the unit is the
\* sender's, the planet is hit, the unit is removed and the change is
\* broadcast.  The game-over check follows in either case.
H_Damage ==
    /\ H_Idle
    /\ LET e == QHead(handler_queue)
       IN /\ e.name = "damage"
          /\ IF ~TurnsAccepted
             THEN /\ h_pc' = "idle"
                  /\ UNCHANGED <<cache, object_ids, sender_queue>>
             ELSE IF e.planet_id \notin DOMAIN cache
             THEN /\ h_pc' = "raised"
                  /\ UNCHANGED <<cache, object_ids, sender_queue>>
             ELSE IF e.unit_id \in Range(object_ids[e.player])
             THEN /\ cache' = [cache EXCEPT ![e.planet_id] =
                                    DamagePlanet(@, e.player, e.hp_count)]
                  /\ object_ids' = [object_ids EXCEPT ![e.player] =
                                        RemoveFirst(@, e.unit_id)]
                  /\ sender_queue' = Notify(sender_queue,
                        [name |-> "damage",
                         planet_change |->
                            [id |-> e.planet_id,
                             units_count |-> cache'[e.planet_id].units_count,
                             owner |-> cache'[e.planet_id].owner],
                         unit_id |-> e.unit_id])
                  /\ h_pc' = "game_over_iter"
             ELSE /\ h_pc' = "game_over_iter"
                  /\ UNCHANGED <<cache, object_ids, sender_queue>>
    /\ handler_queue' = QRemove(handler_queue)
    /\ UNCHANGED <<connVars, ready, rendered, readiness, game_started,
                   id_generator, alive, rVars, h_it, h_acc, sVars>>

\* active_players = []; for player in self.players.values(): the iterator of
\* the for loop of line 214 is created.
H_GameOverIter ==
    /\ h_pc = "game_over_iter"
    /\ h_pc' = "game_over_check"
    /\ h_it' = ItNew
    /\ h_acc' = <<>>
    /\ UNCHANGED <<connVars, playerVars, gameVars, handler_queue, sender_queue,
                   alive, rVars, sVars>>

\* Active without its test that the player owns a planet.
Active_NoPlanetTest(p) == Len(object_ids[p]) > 0

\* Lines 215-219: player p has a unit and is the owner of a planet.
Active(p) ==
    /\ Len(object_ids[p]) > 0
    /\ \E pl \in DOMAIN cache : cache[pl].owner = p

\* The game-over check, one next() of the for loop of line 214: it raises, or
\* it yields a player, who is appended to active_players when active, and the
\* loop breaks at the second one; or the for loop ends and its else clause
\* is next.
H_GameOverCheck ==
    /\ h_pc = "game_over_check"
    /\ IF ItRaises(h_it) THEN H_Leave("raised")
       ELSE IF ItStops(h_it)
       THEN h_pc' = "game_over_else" /\ h_it' = NoIter /\ UNCHANGED h_acc
       ELSE LET p == ItYield(h_it)
                active_players == IF Active(p) THEN Append(h_acc, p) ELSE h_acc
            IN IF Len(active_players) >= 2
               THEN H_Leave("idle")
               ELSE /\ h_acc' = active_players
                    /\ h_it' = ItAfter(h_it)
                    /\ UNCHANGED h_pc
    /\ UNCHANGED <<connVars, playerVars, gameVars, handler_queue, sender_queue,
                   alive, rVars, sVars>>

\* The else clause of the for loop: GAME_OVER names active_players[0] (an
\* IndexError when no player is active) and is notified (lines 223-225).
H_GameOverElse ==
    /\ h_pc = "game_over_else"
    /\ IF h_acc = <<>>
       THEN H_Leave("raised") /\ UNCHANGED sender_queue
       ELSE /\ sender_queue' = Notify(sender_queue,
                    [name |-> "gameover", winner |-> h_acc[1]])
            /\ H_Leave("reset_readiness")
    /\ UNCHANGED <<connVars, playerVars, gameVars, handler_queue, alive, rVars,
                   sVars>>

\* self.readiness = False
H_ResetReadiness ==
    /\ h_pc = "reset_readiness"
    /\ readiness' = FALSE
    /\ h_pc' = "reset_started"
    /\ UNCHANGED <<connVars, playerVars, game_started, cache, id_generator,
                   handler_queue, sender_queue, alive, rVars, h_it, h_acc, sVars>>

\* self.game_started = False
H_ResetStarted ==
    /\ h_pc = "reset_started"
    /\ game_started' = FALSE
    /\ h_pc' = "reset_players"
    /\ UNCHANGED <<connVars, playerVars, readiness, cache, id_generator,
                   handler_queue, sender_queue, alive, rVars, h_it, h_acc, sVars>>

\* self.players = {}
H_ResetPlayers ==
    /\ h_pc = "reset_players"
    /\ players' = <<>>
    /\ h_pc' = "reset_clients"
    /\ UNCHANGED <<clients, next_player_id, closed, playerVars, gameVars,
                   handler_queue, sender_queue, alive, rVars, h_it, h_acc, sVars>>

\* self.clients = []: a new list; a Sender in its for loop keeps iterating the
\* old one.
H_ResetClients ==
    /\ h_pc = "reset_clients"
    /\ clients' = <<>>
    /\ IF s_pc \in {"sending", "picked"} /\ s_live
       THEN s_live' = FALSE /\ s_snapshot' = clients
       ELSE UNCHANGED <<s_live, s_snapshot>>
    /\ h_pc' = "idle"
    /\ UNCHANGED <<players, next_player_id, closed, playerVars, gameVars,
                   handler_queue, sender_queue, alive, rVars, h_it, h_acc,
                   s_pc, s_event, s_idx, s_client>>

\* ------------------------------------------------------------ Sender
\* The list the Sender's for loop iterates.
S_List == IF s_live THEN clients ELSE s_snapshot

\* ServerEvent.request(): json.dumps serializes the payload unless it holds a
\* Player object, for which it raises TypeError. MOVE and ADD_HP rebroadcast
\* the inbound payload, where ClientEvent has put the Player under 'player';
\* in CONNECT and READY 'player' is the player's info() and id.
Serializable(e) == ~(e.name \in {"move", "add_hp"} /\ "player" \in DOMAIN e)

\* while is_alive(): if not self.__sender_queue.empty(): the Sender goes on
\* to its remove().
S_Check ==
    /\ s_pc = "idle"
    /\ alive["sender"]
    /\ HasEvent(sender_queue)
    /\ s_pc' = "remove"
    /\ UNCHANGED <<connVars, playerVars, gameVars, handler_queue, sender_queue,
                   alive, rVars, hVars, s_event, s_idx, s_live, s_snapshot,
                   s_client>>

\* event = self.__sender_queue.remove(); on an empty queue the call does not
\* return.
S_Remove ==
    /\ s_pc = "remove"
    /\ ~QEmpty(sender_queue)
    /\ s_event' = QHead(sender_queue)
    /\ sender_queue' = QRemove(sender_queue)
    /\ s_pc' = "removed"
    /\ UNCHANGED <<connVars, playerVars, gameVars, handler_queue, alive, rVars,
                   hVars, s_idx, s_live, s_snapshot, s_client>>

\* for client in self.clients: the iterator is created over the list that
\* self.clients is now.
S_Iter ==
    /\ s_pc = "removed"
    /\ s_pc' = "sending"
    /\ s_idx' = 1
    /\ s_live' = TRUE
    /\ s_snapshot' = <<>>
    /\ UNCHANGED <<connVars, playerVars, gameVars, handler_queue, sender_queue,
                   alive, rVars, hVars, s_event, s_client>>

\* One next() of the list iterator that yields a client.
S_Pick ==
    /\ s_pc = "sending"
    /\ s_idx <= Len(S_List)
    /\ s_client' = S_List[s_idx]
    /\ s_idx' = s_idx + 1
    /\ s_pc' = "picked"
    /\ UNCHANGED <<connVars, playerVars, gameVars, handler_queue, sender_queue,
                   alive, rVars, hVars, s_event, s_live, s_snapshot>>

\* client.send(event.request()) returns: the loop goes on to the next client.
S_SendOk ==
    /\ s_pc = "picked"
    /\ Serializable(s_event)
    /\ s_client \notin closed
    /\ s_pc' = "sending"
    /\ s_client' = NoClient
    /\ UNCHANGED <<connVars, playerVars, gameVars, handler_queue, sender_queue,
                   alive, rVars, hVars, s_event, s_idx, s_live, s_snapshot>>

\* client.send(event.request()) raises (the event is not serializable, the
\* peer has gone, or the socket is closed): nothing in __sender catches it.
S_SendFail ==
    /\ s_pc = "picked"
    /\ s_pc' = "raised"
    /\ UNCHANGED <<connVars, playerVars, gameVars, handler_queue, sender_queue,
                   alive, rVars, hVars, s_event, s_idx, s_live, s_snapshot,
                   s_client>>

\* The list iterator is exhausted: back to the top of the loop.
S_Done ==
    /\ s_pc = "sending"
    /\ s_idx > Len(S_List)
    /\ s_pc' = "idle"
    /\ s_event' = NoEvent
    /\ s_idx' = 0
    /\ s_live' = TRUE
    /\ s_snapshot' = <<>>
    /\ s_client' = NoClient
    /\ UNCHANGED <<connVars, playerVars, gameVars, handler_queue, sender_queue,
                   alive, rVars, hVars>>

\* ------------------------------------------------------------ specifications
Receiver(Events) ==
    \/ R_Select
    \/ R_SelectReturn
    \/ R_WaitForClient
    \/ R_Accept
    \/ R_Register
    \/ R_NotifyConnect
    \/ \E e \in Events : R_RecvEvent(e)
    \/ R_Closes(MaxCloses)
    \/ R_RecvRaises
    \/ R_DelPlayer
    \/ R_Close

HandlerLobby ==
    \/ H_Check
    \/ H_Ready
    \/ H_ReadyIter
    \/ H_AllReady
    \/ H_LenTest
    \/ H_MapIter
    \/ H_MapInit
    \/ H_SetReadiness
    \/ H_NotifyMap
    \/ H_Rendered
    \/ H_RenderedIter
    \/ H_RenderedNext
    \/ H_NotifyStarted
    \/ H_SetStarted

HandlerMatch ==
    \/ H_Check
    \/ H_Select
    \/ H_Damage
    \/ H_GameOverIter
    \/ H_GameOverCheck
    \/ H_GameOverElse
    \/ H_ResetReadiness
    \/ H_ResetStarted
    \/ H_ResetPlayers
    \/ H_ResetClients

Sender ==
    \/ S_Check
    \/ S_Remove
    \/ S_Iter
    \/ S_Pick
    \/ S_SendOk
    \/ S_SendFail
    \/ S_Done

\* The lobby: connections, ready and rendered events, from the server's start.
Next == Receiver(LobbyEvents) \/ HandlerLobby \/ Sender

Spec == Init /\ [][Next]_vars

\* Two players have connected, both are ready, the map is generated, both have
\* rendered and the broadcasts are out: the match begins.
InitGame ==
    /\ clients = <<1, 2>>
    /\ players = <<1, 2>>
    /\ next_player_id = 2
    /\ closed = {}
    /\ ready = [p \in PlayerIds |-> p <= 2]
    /\ rendered = [p \in PlayerIds |-> p <= 2]
    /\ object_ids = [p \in PlayerIds |-> <<>>]
    /\ readiness = TRUE
    /\ game_started = TRUE
    /\ cache = GenerateMap(<<1, 2>>)
    /\ id_generator = 1
    /\ handler_queue = <<>>
    /\ sender_queue = <<>>
    /\ alive = [t \in {"receiver", "handler", "sender"} |-> TRUE]
    /\ r_pc = "select"
    /\ r_readable = <<>>
    /\ r_list = <<>>
    /\ h_pc = "idle"
    /\ h_it = NoIter
    /\ h_acc = <<>>
    /\ s_pc = "idle"
    /\ s_event = NoEvent
    /\ s_idx = 0
    /\ s_live = TRUE
    /\ s_snapshot = <<>>
    /\ s_client = NoClient

\* A match played to its end, the three workers interleaved.
NextMatch == Receiver(MatchEvents) \/ HandlerMatch \/ Sender

SpecMatch == InitGame /\ [][NextMatch]_vars

\* The clients send e one event at a time: the event the Receiver inserts
\* arrives when the inbound queue is empty.
R_RecvEventInTurn(e) ==
    R_RecvEvent(e) /\ (handler_queue' # handler_queue => QEmpty(handler_queue))

\* The Receiver of a match whose clients stay connected and send one event at
\* a time.
ReceiverTurns ==
    \/ R_Select
    \/ R_SelectReturn
    \/ R_WaitForClient
    \/ R_Accept
    \/ R_Register
    \/ R_NotifyConnect
    \/ \E e \in GameEvents : R_RecvEventInTurn(e)
    \/ R_RecvRaises

\* The turn actions of a match, over all their inputs, the three workers
\* interleaved.
NextTurns ==
    \/ ReceiverTurns
    \/ H_Move
    \/ H_AddHp
    \/ HandlerMatch
    \/ Sender

SpecTurns == InitGame /\ [][NextTurns]_vars

\* What the clients send over a whole session, from the lobby to the end of
\* a match.
SessionEvents ==
    {[name |-> "ready", ready |-> TRUE], [name |-> "rendered"]}
    \cup MoveEvents
    \cup {[name |-> "add_hp", planet_id |-> 1, hp_count |-> 2]}
    \cup {[name |-> "select", from |-> <<pl>>, percentage |-> 50] :
            pl \in PlanetIds}
    \cup {[name |-> "damage", planet_id |-> 2, unit_id |-> 1, hp_count |-> 1]}

\* The server has answered what the clients have sent: both queues are empty
\* and the Handler and the Sender are at the top of their loops.
Answered ==
    /\ QEmpty(handler_queue) /\ QEmpty(sender_queue)
    /\ h_pc = "idle" /\ s_pc = "idle"

\* A client connects when the server has answered what was sent before.
R_SelectReturnAnswered ==
    R_SelectReturn /\ (ServerSock \in Range(r_readable') => Answered)

\* A client sends e when the server has answered what was sent before.
R_RecvEventAnswered(e) ==
    R_RecvEvent(e) /\ (handler_queue' # handler_queue => Answered)

\* The Receiver of a session whose clients connect and send when the server
\* has answered, and close their connections at any time.
ReceiverSession ==
    \/ R_Select
    \/ R_SelectReturnAnswered
    \/ R_WaitForClient
    \/ R_Accept
    \/ R_Register
    \/ R_NotifyConnect
    \/ \E e \in SessionEvents : R_RecvEventAnswered(e)
    \/ R_Closes(MaxClients)
    \/ R_RecvRaises
    \/ R_DelPlayer
    \/ R_Close

\* Every branch of __handler.
Handler == HandlerLobby \/ HandlerMatch \/ H_Move \/ H_AddHp

\* A whole session from the server's start: the lobby, the match, the
\* game-over reset, the three workers interleaved.
NextSession == ReceiverSession \/ Handler \/ Sender

SpecSession == Init /\ [][NextSession]_vars

\* ------------------------------------------------------------ claims
\* A connection is registered in this step.
Joins == Len(clients') > Len(clients) \/ Len(players') > Len(players)

\* The map is generated in this step.
MapGenerated == h_pc = "map_iter" /\ h_pc' = "set_readiness"

\* C1: whenever game_started is set to true, readiness is already true and
\* every player of the player set has rendered.
C1_GameStartedAfterReadiness ==
    [][(~game_started /\ game_started') =>
            (readiness /\ AllRendered(rendered'))]_vars

\* C2: once the map has been generated (readiness is true), no later ready
\* event generates it again before the session is reset.
C2_MapGeneratedOnce == [][MapGenerated => ~readiness]_vars

\* C3: readiness is set to true only by the Handler's ready branch, in a state
\* where the player set has at least 2 players and every one of them is ready.
C3_ReadinessOnlyWhenAllReady ==
    [][(~readiness /\ readiness') =>
            (h_pc = "set_readiness" /\ Len(players) >= 2 /\ AllReady)]_vars

\* C4: under every interleaving of the Receiver with the Handler, a socket is
\* added to clients, and a Player to players, only in a state where readiness
\* and game_started are both false.
C4_NoJoinAfterMapGenerated == [][Joins => (~readiness /\ ~game_started)]_vars

\* C5: clients never holds more than max_client_count sockets, and a connect
\* attempt handled while it holds that many is not accepted: clients, players
\* and the outbound queue stay as they are.
C5_Capacity ==
    /\ [](Len(clients) <= MaxClients)
    /\ [][(r_pc = "dispatch" /\ Head(r_readable) = ServerSock
            /\ Len(clients) >= MaxClients /\ r_pc' # r_pc)
          => (r_pc' # "accept" /\ UNCHANGED <<clients, players, sender_queue>>)]_vars

\* C5: a connect attempt is being handled while clients is full.
C5_Witness ==
    /\ Len(clients) = MaxClients
    /\ r_pc = "dispatch"
    /\ r_readable # <<>>
    /\ Head(r_readable) = ServerSock
    /\ ~readiness /\ ~game_started

\* The Handler removes an event named name from the inbound queue in this
\* step, with the game started.
Handles(name) ==
    /\ h_pc = "remove"
    /\ handler_queue # <<>>
    /\ handler_queue' = QRemove(handler_queue)
    /\ QHead(handler_queue).name = name
    /\ game_started

\* The event the Handler removes.
Handled == QHead(handler_queue)

\* The units of player p, as a set.
Units(p) == Range(object_ids[p])

\* Player p has a unit and owns a planet.
Qualifies(p) ==
    /\ Len(object_ids[p]) > 0
    /\ \E pl \in DOMAIN cache : cache[pl].owner = p

\* The players of the player set that qualify.
Qualifying == {p \in Range(players) : Qualifies(p)}

\* C6: an authorized damage event of player A with amount h on a planet with
\* u units: A's planet gets u + h and keeps its owner; another's planet goes
\* to A with h - u units when h > u and keeps its owner with u - h units
\* otherwise.  The unit is removed from A's units, nothing else of a planet or
\* a player changes, and one damage event with the planet's new state and the
\* unit id is enqueued.
C6_DamageResult ==
    [][(Handles("damage") /\ Handled.unit_id \in Units(Handled.player))
        =>
        LET e == Handled
            A == e.player
            pl == e.planet_id
            u == cache[pl].units_count
            h == e.hp_count
            after == IF cache[pl].owner = A
                     THEN [owner |-> A, units_count |-> u + h]
                     ELSE IF h > u
                     THEN [owner |-> A, units_count |-> h - u]
                     ELSE [owner |-> cache[pl].owner, units_count |-> u - h]
        IN /\ cache'[pl] = after
           /\ \A other \in DOMAIN cache \ {pl} : cache'[other] = cache[other]
           /\ DOMAIN cache' = DOMAIN cache
           /\ Range(object_ids'[A]) = Units(A) \ {e.unit_id}
           /\ Len(object_ids'[A]) = Len(object_ids[A]) - 1
           /\ \A q \in PlayerIds \ {A} : object_ids'[q] = object_ids[q]
           /\ UNCHANGED <<ready, rendered, players, clients>>
           /\ sender_queue' = Append(sender_queue,
                [name |-> "damage",
                 planet_change |-> [id |-> pl,
                                    units_count |-> after.units_count,
                                    owner |-> after.owner],
                 unit_id |-> e.unit_id])
      ]_vars

\* C6: player 1 has taken planet 2 with 3 against 2 units: the damage event
\* announces owner 1 and 1 unit.
C6_Witness ==
    \E i \in 1..Len(sender_queue) :
        /\ sender_queue[i].name = "damage"
        /\ sender_queue[i].planet_change = [id |-> 2, units_count |-> 1, owner |-> 1]
        /\ cache[2] = [owner |-> 1, units_count |-> 1]

\* n is num/100 rounded as Python's round() rounds: nearest, a tie to even.
IsRound(n, num) ==
    /\ Abs(100 * n - num) <= 50
    /\ Abs(100 * n - num) = 50 => n % 2 = 0

\* The sum of f over the set S.
RECURSIVE Sum(_, _)
Sum(f, S) ==
    IF S = {} THEN 0
    ELSE LET x == CHOOSE x \in S : TRUE IN f[x] + Sum(f, S \ {x})

\* The result of a select event e of the claim C7: for every listed planet of
\* the sender, n = round(u * p / 100) ids are minted and the planet keeps
\* u - n >= 0 units; the sender's units grow by exactly the ids minted, none
\* of them issued before; the other planets and players are unchanged.
SelectResult(e) ==
    LET A == e.player
        p == e.percentage
        owned == {pl \in Range(e.from) : cache[pl].owner = A}
        n == [pl \in owned |->
                CHOOSE k \in -MaxUnits..MaxUnits :
                    IsRound(k, cache[pl].units_count * p)]
        total == Sum(n, owned)
        minted == {object_ids'[A][i] :
                    i \in Len(object_ids[A]) + 1 .. Len(object_ids'[A])}
    IN /\ \A pl \in owned :
            /\ n[pl] >= 0
            /\ cache'[pl].units_count = cache[pl].units_count - n[pl]
            /\ cache'[pl].units_count >= 0
            /\ cache'[pl].owner = A
       /\ \A pl \in DOMAIN cache \ owned : cache'[pl] = cache[pl]
       /\ Len(object_ids'[A]) = Len(object_ids[A]) + total
       /\ SubSeq(object_ids'[A], 1, Len(object_ids[A])) = object_ids[A]
       /\ Cardinality(minted) = total
       /\ \A x \in minted :
            /\ x >= id_generator
            /\ \A q \in PlayerIds : x \notin Units(q)
       /\ \A q \in PlayerIds \ {A} : object_ids'[q] = object_ids[q]

\* No planet is listed twice in the sequence s.
NoDuplicates(s) == \A i, j \in 1..Len(s) : s[i] = s[j] => i = j

\* C7 as claimed: every select event handled while the game is started, with a
\* percentage in 0..100, has the result SelectResult.
C7_SelectAsClaimed ==
    [][(Handles("select") /\ Handled.percentage \in 0..100)
        => SelectResult(Handled)]_vars

\* C7, amended: a select event handled while the game is started, with a
\* percentage in 0..100, that lists no planet twice and whose listed planets
\* of the sender have units_count >= 0, has the result SelectResult.
C7_SelectResult ==
    [][(/\ Handles("select")
        /\ Handled.percentage \in 0..100
        /\ NoDuplicates(Handled.from)
        /\ \A pl \in Range(Handled.from) :
                cache[pl].owner = Handled.player => cache[pl].units_count >= 0)
        => SelectResult(Handled)]_vars

\* C7: player 1 has selected half of the 2 units of planet 1: one id minted,
\* one unit left, and the broadcast says so.
C7_Witness ==
    /\ cache[1] = [owner |-> 1, units_count |-> 1]
    /\ object_ids[1] = <<1>>
    /\ \E i \in 1..Len(sender_queue) :
        /\ sender_queue[i].name = "select"
        /\ sender_queue[i].selected = (1 :> <<1>>)

\* The Handler finishes an inbound event in this step.
Finishes == h_pc # "idle" /\ h_pc' = "idle"

FinishesDamage ==
    /\ h_pc' = "idle"
    /\ \/ h_pc = "remove" /\ handler_queue # <<>> /\ Handled.name = "damage"
       \/ h_pc = "game_over_check"
       \/ h_pc = "reset_clients"

C9_GameOverCompletes ==
    /\ [][(h_pc = "game_over_else" /\ h_pc' # h_pc)
          => /\ h_pc' = "reset_readiness"
             /\ Len(sender_queue') = Len(sender_queue) + 1
             /\ sender_queue'[Len(sender_queue')].name = "gameover"]_vars
    /\ [][(h_pc = "reset_clients" /\ h_pc' # h_pc)
          => /\ h_pc' = "idle"
             /\ players' = <<>> /\ clients' = <<>>
             /\ ~readiness' /\ ~game_started']_vars

\* C10: a write of the Sender that fails does not end the broadcast or the
\* Sender: after a write the Sender goes on with its loop over the clients,
\* and it is never stopped by an exception of client.send().
C10_SenderSurvivesWriteFailure ==
    /\ [](s_pc # "raised")
    /\ [][s_pc = "picked" => s_pc' \in {"picked", "sending"}]_vars

\* The Handler removes an event from the inbound queue in this step, with the
\* game started.
HandlesAny ==
    /\ h_pc = "remove"
    /\ handler_queue # <<>>
    /\ handler_queue' = QRemove(handler_queue)
    /\ game_started

\* The event e is a turn action its sender is not authorized for: a move or a
\* damage with a unit that is not the sender's, an add_hp on a planet that is
\* not the sender's, a select that lists no planet of the sender.
Unauthorized(e) ==
    \/ e.name \in {"move", "damage"} /\ e.unit_id \notin Units(e.player)
    \/ e.name = "add_hp" /\ cache[e.planet_id].owner # e.player
    \/ e.name = "select" /\ \A pl \in Range(e.from) : cache[pl].owner # e.player

\* C11: an unauthorized turn action is dropped: handling it changes no planet,
\* no unit set, no session flag, no membership of clients or players, enqueues
\* no outbound event, and the Handler is back at its loop.
C11_UnauthorizedDropped ==
    [][(HandlesAny /\ Unauthorized(Handled))
        => /\ UNCHANGED <<cache, object_ids, readiness, game_started, clients,
                          players, sender_queue>>
           /\ h_pc' = "idle"]_vars

\* The names of the turn actions.
TurnNames == {"move", "select", "add_hp", "damage"}

\* C12: while game_started is false, handling a move, select, add_hp or damage
\* event changes no planet, no unit set, no session flag and not the id
\* generator, enqueues no outbound event, and the Handler is back at its loop,
\* whatever the payload.
C12_NoEffectBeforeStart ==
    [][(/\ h_pc = "remove"
        /\ handler_queue # <<>>
        /\ handler_queue' = QRemove(handler_queue)
        /\ ~game_started
        /\ Handled.name \in TurnNames)
        => /\ UNCHANGED <<cache, object_ids, id_generator, readiness,
                          game_started, sender_queue>>
           /\ h_pc' = "idle"]_vars

\* C12: with the game not started the Handler is about to handle a select of
\* a planet of its sender that has units, which would mint ids in a game.
C12_Witness ==
    /\ ~game_started
    /\ h_pc = "remove"
    /\ handler_queue # <<>>
    /\ Handled.name = "select"
    /\ Handled.percentage = 100
    /\ \E pl \in Range(Handled.from) :
            cache[pl].owner = Handled.player /\ cache[pl].units_count > 0

\* ------------------------------------------------------------ shutdown
\* The workers in the order Server.start() starts them and Server.stop()
\* stops and joins them.
Threads == <<"receiver", "handler", "sender">>

\* Stopped with every worker's flag cleared by one stop().
Stopped_All(a, t) == [x \in DOMAIN a |-> FALSE]

\* StoppedThread.stop(): the liveness flags a after stop() on worker t.
Stopped(a, t) == [a EXCEPT ![t] = FALSE]

\* LoopEnds for a loop that never tests is_alive().
LoopEnds_Never(t) == FALSE

\* while is_alive(): the test fails, the worker leaves its loop.
LoopEnds(t) == ~alive[t]

\* The thread of worker t has ended: it left its loop, or an exception ended it.
Exited(t) ==
    CASE t = "receiver" -> r_pc \in {"exited", "raised", "raised_del"}
      [] t = "handler" -> h_pc \in {"exited", "raised"}
      [] t = "sender" -> s_pc \in {"exited", "raised"}

\* Server.stop(), the turn of Threads[i] in its for loop: the join() of every
\* worker before it has returned; thread.stop().
M_Stop(i) ==
    /\ alive[Threads[i]]
    /\ \A j \in 1..(i - 1) : ~alive[Threads[j]] /\ Exited(Threads[j])
    /\ alive' = Stopped(alive, Threads[i])
    /\ UNCHANGED <<connVars, playerVars, gameVars, handler_queue, sender_queue,
                   rVars, hVars, sVars>>

\* __receiver: is_alive() is false at the top of the loop.
R_Exit ==
    /\ r_pc = "select"
    /\ LoopEnds("receiver")
    /\ r_pc' = "exited"
    /\ UNCHANGED <<connVars, playerVars, gameVars, handler_queue, sender_queue,
                   alive, r_readable, r_list, hVars, sVars>>

\* __handler: is_alive() is false at the top of the loop.
H_Exit ==
    /\ h_pc = "idle"
    /\ LoopEnds("handler")
    /\ h_pc' = "exited"
    /\ UNCHANGED <<connVars, playerVars, gameVars, handler_queue, sender_queue,
                   alive, rVars, h_it, h_acc, sVars>>

\* __sender: is_alive() is false at the top of the loop.
S_Exit ==
    /\ s_pc = "idle"
    /\ LoopEnds("sender")
    /\ s_pc' = "exited"
    /\ UNCHANGED <<connVars, playerVars, gameVars, handler_queue, sender_queue,
                   alive, rVars, hVars, s_event, s_idx, s_live, s_snapshot,
                   s_client>>

\* What the clients send while the server is stopped.
StopEvents ==
    {[name |-> "select", from |-> <<1>>, percentage |-> 50],
     [name |-> "move", unit_id |-> 1]}

\* The Receiver of a match in progress (no connection is accepted).
ReceiverStop ==
    \/ R_Select
    \/ R_SelectReturn
    \/ R_WaitForClient
    \/ \E e \in StopEvents : R_RecvEvent(e)
    \/ R_Closes(MaxCloses)
    \/ R_RecvRaises
    \/ R_DelPlayer
    \/ R_Close
    \/ R_Exit

HandlerStop ==
    \/ H_Check
    \/ H_Select
    \/ H_Move
    \/ H_Exit

SenderStop ==
    \/ Sender
    \/ S_Exit

\* Server.stop() after its first thread.stop().
MainStop == M_Stop(2) \/ M_Stop(3)

NextStop == ReceiverStop \/ HandlerStop \/ SenderStop \/ M_Stop(1) \/ MainStop

\* A match in progress in which Server.stop() may be called at any time.  The
\* workers and the caller of stop() are threads the scheduler keeps running.
SpecStop ==
    /\ InitGame
    /\ [][NextStop]_vars
    /\ WF_vars(ReceiverStop)
    /\ WF_vars(HandlerStop)
    /\ WF_vars(SenderStop)
    /\ WF_vars(MainStop)

\* Server.stop() has returned: every worker is stopped and joined.
StopReturned == \A i \in 1..3 : ~alive[Threads[i]] /\ Exited(Threads[i])

\* C13: is_alive() of a worker is true from construction, becomes false only
\* by stop() on that worker, is false after it, and never becomes true again.
C13_AliveUntilStopped ==
    /\ \A i \in 1..3 : alive[Threads[i]]
    /\ [][\A i \in 1..3 :
            /\ ~alive[Threads[i]] => ~alive'[Threads[i]]
            /\ (alive[Threads[i]] /\ ~alive'[Threads[i]]) => M_Stop(i)
            /\ M_Stop(i) => ~alive'[Threads[i]]]_vars

\* C13: stop() has been called on the receiver and not yet on the others.
C13_Witness ==
    /\ ~alive["receiver"]
    /\ alive["handler"]
    /\ alive["sender"]

\* C14: once Server.stop() has been called, it returns: every worker sees its
\* flag false and leaves its loop, whatever the queues and clients hold.
C14_ShutdownTerminates == (~alive["receiver"]) ~> StopReturned

\* C14: Server.stop() has returned with events left in a queue and clients
\* still connected.
C14_Witness ==
    /\ StopReturned
    /\ r_pc = "exited" /\ h_pc = "exited" /\ s_pc = "exited"
    /\ handler_queue # <<>>
    /\ clients # <<>>

\* ------------------------------------------------------------ units
\* Every unit id held was issued by the id generator, is held by one player
\* only, and is in that player's list once.
UnitsOwnedOnce ==
    /\ \A p \in PlayerIds :
        /\ NoDuplicates(object_ids[p])
        /\ \A u \in Units(p) : u < id_generator
    /\ \A p, q \in PlayerIds : p # q => Units(p) \cap Units(q) = {}

\* C15: over the select, move and damage events of a match a unit id is in at
\* most one player's unit set, at most once; an id enters a unit set only
\* fresh from the id generator; and the id an authorized damage consumes is
\* in no unit set afterwards, so it never is again.
C15_UnitOwnership ==
    /\ []UnitsOwnedOnce
    /\ [][\A p \in PlayerIds : \A u \in Units(p)' \ Units(p) :
                u >= id_generator /\ u < id_generator']_vars
    /\ [][(Handles("damage") /\ Handled.unit_id \in Units(Handled.player))
            => \A p \in PlayerIds : Handled.unit_id \notin Units(p)']_vars

\* C15: a unit has been consumed by a damage event that is being broadcast,
\* no player holds it, and units of both players are in play.
C15_Witness ==
    /\ \E i \in 1..Len(sender_queue) :
        /\ sender_queue[i].name = "damage"
        /\ \A p \in PlayerIds : sender_queue[i].unit_id \notin Units(p)
    /\ Units(1) # {}
    /\ Units(2) # {}

\* ------------------------------------------------------------ queue protocol
\* The queue q changes to q2 by an insert at its end.
Inserted(q, q2) == Len(q2) = Len(q) + 1 /\ SubSeq(q2, 1, Len(q)) = q

\* The queue q changes to q2 by the removal of its first event.
Removed(q, q2) == q # <<>> /\ q2 = Tail(q)

\* C16: with the consumers testing empty() and then calling remove(), and the
\* producers inserting at any time, remove() is never called on an empty
\* queue; between a consumer's empty() and its remove() the first event of
\* its queue stays the first, whatever is inserted meanwhile; a queue changes
\* only by an insert at its end or by its consumer's remove() of its first
\* event, which is the event the consumer then handles; so every event
\* inserted is removed once, in the order of insertion.
C16_TwoCallPattern ==
    /\ [](h_pc = "remove" => handler_queue # <<>>)
    /\ [](s_pc = "remove" => sender_queue # <<>>)
    /\ [][(h_pc = "remove" /\ h_pc' = "remove")
            => QHead(handler_queue') = QHead(handler_queue)]_vars
    /\ [][(s_pc = "remove" /\ s_pc' = "remove")
            => QHead(sender_queue') = QHead(sender_queue)]_vars
    /\ [][(handler_queue' # handler_queue) =>
            (\/ Inserted(handler_queue, handler_queue')
             \/ h_pc = "remove" /\ Removed(handler_queue, handler_queue'))]_vars
    /\ [][(sender_queue' # sender_queue) =>
            (\/ Inserted(sender_queue, sender_queue')
             \/ /\ s_pc = "remove" /\ Removed(sender_queue, sender_queue')
                /\ s_event' = QHead(sender_queue))]_vars

\* C16: the Handler is between its empty() test and its remove() with two
\* different events in the inbound queue, the second inserted by the
\* Receiver behind the first.
C16_Witness ==
    /\ h_pc = "remove"
    /\ Len(handler_queue) = 2
    /\ handler_queue[1] # handler_queue[2]
    /\ r_pc = "select"

\* ------------------------------------------------------------ broadcast
\* The Sender calls client.send() on s_client in this step: event.request()
\* has returned the message.
Writes == s_pc = "picked" /\ s_pc' # "picked" /\ Serializable(s_event)

\* C17: while the Receiver handles disconnects, every socket the Sender writes
\* to is in clients and not closed at the time of the write (the list the
\* Sender iterates being the one the Receiver removes from).
C17_NoWriteToRemoved ==
    [][(Writes /\ s_live)
        => (s_client \in Range(clients) /\ s_client \notin closed)]_vars

\* ------------------------------------------------------------ writers
\* The membership of the Connection Set: the clients list and the players map.
Membership == <<clients, players>>

\* The game state: planets, the players' flags and units, the session flags.
GameState == <<cache, ready, rendered, object_ids, readiness, game_started>>

\* The Receiver takes a step.
ReceiverSteps == rVars' # rVars

\* The Handler runs line 230 or line 231 of its game-over reset: players,
\* then clients, is replaced by an empty one.
ResetsMembership ==
    \/ /\ h_pc = "reset_players" /\ h_pc' = "reset_clients"
       /\ players' = <<>> /\ UNCHANGED clients
    \/ /\ h_pc = "reset_clients" /\ h_pc' = "idle"
       /\ clients' = <<>> /\ UNCHANGED players

\* C18 as claimed: the membership of clients and players changes in steps of
\* the Receiver only, and a step of the Receiver changes no game state.
C18_SingleWriter ==
    /\ [][(Membership' # Membership) => ReceiverSteps]_vars
    /\ [][ReceiverSteps => UNCHANGED GameState]_vars

\* The Handler takes a step.
HandlerSteps == hVars' # hVars

\* C18, amended: the membership of clients and players changes in steps of
\* the Receiver, and in lines 230 and 231 of the Handler's game-over reset,
\* which empty players and clients; every other step of the Handler leaves
\* the membership unchanged; a step of the Receiver changes no game state.
C18_SingleWriterButReset ==
    /\ [][(Membership' # Membership) => (ReceiverSteps \/ ResetsMembership)]_vars
    /\ [][(HandlerSteps /\ h_pc \notin {"reset_players", "reset_clients"})
            => UNCHANGED Membership]_vars
    /\ [][ReceiverSteps => UNCHANGED GameState]_vars

\* C18: the Receiver has removed client 1 after a disconnect and the
\* Handler's game-over reset has then emptied clients and players, the
\* players' flags and the planets being as the Handler left them.
C18_Witness ==
    /\ 1 \in closed
    /\ clients = <<>>
    /\ players = <<>>
    /\ h_pc = "idle"
    /\ ~game_started /\ ~readiness
    /\ ready[1] /\ rendered[1]
    /\ cache # <<>>

\* No client has been removed: __remove_client has removed no socket from
\* clients and closed none.
NoDisconnect == closed = {} /\ r_pc \notin {"del_player", "raised_del", "close"}

\* The Sender ends its loop over the clients for the event s_event.
EndsBroadcast == s_pc = "sending" /\ s_pc' = "idle"

\* C19: an outbound event is written to each client that was connected when
\* it was produced and has not disconnected; in particular, when no client
\* has disconnected, the broadcast of a gameover event ends with the event
\* written to the two clients of the game that ended.
C19_GameoverReachesClients ==
    [][(EndsBroadcast /\ s_event.name = "gameover" /\ NoDisconnect)
        => s_idx - 1 >= 2]_vars

\* C20: while the Handler resets the session, every client socket the
\* Receiver processes from select()'s result is in clients and has a Player
\* when it is processed, so the lookup of its Player and its removal do not
\* raise: the socket is in clients and in players when recv() has returned,
\* and still in players when its Player is deleted.
C20_ReceiverSurvivesReset ==
    /\ [][(r_pc = "dispatch" /\ Head(r_readable) # ServerSock /\ ReceiverSteps)
            => /\ Head(r_readable) \in Range(clients)
               /\ Head(r_readable) \in Range(players)]_vars
    /\ [][(r_pc = "del_player" /\ ReceiverSteps)
            => Head(r_readable) \in Range(players)]_vars

====
